---- MODULE Spec2Model ----
(***************************************************************************)
(* Discrete-event simulator of a batched LLM inference scheduler           *)
(* (vLLM-style memory management).  The model follows the Python sources:  *)
(*   core/request.py, core/system_state.py      requests and SystemState   *)
(*   control/advanced_policy.py                 the scheduling cycle       *)
(*   simulation/vllm_simulator*.py              run() and step()           *)
(* The simulators call the policy's scheduling cycle under the name        *)
(* construct_next_batch (base) or perform_scheduling_cycle (state-saving   *)
(* and admission-control simulators); AdvancedPolicy defines only the      *)
(* latter, and the model uses it for both.  _perform_sacrifice builds its   *)
(* SacrificeEvent with five fields, two more than the dataclass declares;  *)
(* the model keeps all five.  Times are integers (d_0, d_1 and the arrival *)
(* times are scaled to integers).                                          *)
(***************************************************************************)
EXTENDS Integers, Sequences, FiniteSets, TLC

\* ------------------------------------------------------------------ bounds

\* longest input trace
MaxReqs == 2

\* longest input trace of the configurations of InitWide
MaxReqsWide == 4

\* inter-arrival gaps of the input trace (the first one is the first arrival
\* time): arrivals at the same time, and arrivals while a batch executes or
\* while the system is idle
ArrivalGaps == {0, 3}

\* request classes <<prefill_length, decode_length>> of the input trace
RequestTypes == {<<1, 1>>, <<1, 3>>, <<2, 2>>, <<3, 1>>}

\* GPU token budgets and per-step batch token budgets of the configurations
MTotals == {0, 3, 4, 6}
Budgets == {3, 6}

\* most requests that the generator returns for the trace after a truncation
MaxNewReqs == 2

\* truncation points of the configurations of InitTruncation
TruncationBatchIds == {0, 1, 2}

\* inter-arrival gaps of the input traces of InitTruncation: a gap of 4 is
\* longer than the first batch, so that a request is still pending at the
\* truncation point 1
TruncationGaps == {0, 4}

\* admission thresholds, in tenths (0.0, 0.5, 0.7, 1.0)
Thresholds == {0, 5, 7, 10}

\* the longest decode_length of a request class
MaxDecodeLen == CHOOSE d \in {ty[2] : ty \in RequestTypes} :
                    \A e \in {ty[2] : ty \in RequestTypes} : e <= d

\* runs are followed for at most this many executed batches
BatchCap == MaxReqs * MaxDecodeLen + 3

\* ------------------------------------------------------------ configuration

\* the pairs <<d_0, d_1>> of the configurations: batch duration = d_0 + d_1 * tokens
Durations == {<<1, 1>>}

WAITING == "waiting"
RUNNING == "running"
SWAPPED == "swapped"
COMPLETED == "completed"

\* completion_time / swap_in_time not set (Python None)
None == -1

VARIABLES
    simulator,            \* "base" | "state" | "truncation" | "overlay": the simulator class
    preemption_mode,      \* AdvancedPolicy.preemption_mode: "swap" | "sacrifice"
    preemption_strategy,  \* AdvancedPolicy.preemption_strategy
    admission_enabled,    \* overlay: admission_control.enabled
    admission_threshold,  \* overlay: admission_control.threshold, in tenths
    d_0,                  \* config['system']['d_0'], in time units
    d_1,                  \* config['system']['d_1'], in time units per token
    trace,                \* the input trace: the requests as loaded, in row order
    truncation_batch_id,  \* truncation simulators: the truncation point, or None
    truncation_config,    \* generation: 'generation' in truncation_config; requests: what
                          \* the generator returns for it, <<arrival_time, prefill_length,
                          \* decode_length>> per request
    truncation_applied,   \* truncation simulators: the truncation has been applied
    truncation_time,      \* truncation simulators: its time, or None
    all_requests,         \* truncation simulators: self.all_requests
    req_id,               \* Request.req_id of every request object of state.req
    state,                \* SystemState, with the Request objects in state.req
    pending_requests,     \* run(): requests not yet arrived
    time,                 \* simulator.time
    batch_id,             \* simulator.batch_id
    snapshots,            \* simulator.snapshots
    admission,            \* overlay statistics
    pc                    \* position in run(): "loop", "truncate", "idle", "step", "exec",
                          \* "post", "done", "crashed"

vars == <<simulator, preemption_mode, preemption_strategy, admission_enabled,
          admission_threshold, trace, state, pending_requests, time, batch_id,
          snapshots, admission, pc, truncation_batch_id, truncation_config,
          truncation_applied, truncation_time, all_requests, req_id, d_0, d_1>>

config_vars == <<simulator, preemption_mode, preemption_strategy, admission_enabled,
                 admission_threshold, trace, truncation_batch_id, truncation_config,
                 d_0, d_1>>

truncation_vars == <<truncation_applied, truncation_time, all_requests, req_id>>

\* ------------------------------------------------------------------ helpers

RECURSIVE SeqRemove(_, _)
\* list.remove(x): removes the first occurrence
SeqRemove(q, x) ==
    IF q = <<>> THEN <<>>
    ELSE IF Head(q) = x THEN Tail(q)
    ELSE <<Head(q)>> \o SeqRemove(Tail(q), x)

SeqSet(q) == {q[i] : i \in 1..Len(q)}

Last(q) == q[Len(q)]

\* the element of a one-element set
Only(S) == CHOOSE x \in S : TRUE

\* ------------------------------------------------------------------ Request

NewRequest(arrival, prefill, decode) ==
    [arrival_time |-> arrival,
     prefill_length |-> prefill,
     decode_length |-> decode,
     status |-> WAITING,
     current_decode_position |-> 0,
     enter_running_times |-> <<>>,
     exit_running_times |-> <<>>,
     completion_time |-> None,
     swap_events |-> <<>>,
     sacrifice_events |-> <<>>]

memory_requirement(r) == r.prefill_length + r.current_decode_position

current_memory_usage(r) ==
    IF r.status = RUNNING THEN r.prefill_length + r.current_decode_position ELSE 0

is_completed(r) == r.current_decode_position >= r.decode_length

\* the key of victim selection: enter_running_times[-1], or 0 when the list is empty
last_enter_time(r) ==
    IF r.enter_running_times # <<>> THEN Last(r.enter_running_times) ELSE 0

\* -------------------------------------------------------------- SystemState

NewSystemState(M, B, reqs) ==
    [M_total |-> M,
     B |-> B,
     req |-> reqs,
     waiting |-> <<>>,
     running |-> <<>>,
     swapped |-> <<>>,
     completed_requests |-> <<>>,
     total_completed |-> 0,
     total_admitted |-> 0,
     total_swapped_out |-> 0,
     total_swapped_in |-> 0,
     total_sacrifices |-> 0,
     batch_sacrifices |-> 0,
     actual_batch_tokens |-> 0,
     actual_batch_count |-> 0,
     fatal |-> FALSE]

RECURSIVE SumUsage(_, _)
SumUsage(req, ids) ==
    IF ids = <<>> THEN 0
    ELSE current_memory_usage(req[Head(ids)]) + SumUsage(req, Tail(ids))

gpu_memory_used(s) == SumUsage(s.req, s.running)

available_memory(s) == s.M_total - gpu_memory_used(s)

can_admit(s, id) == memory_requirement(s.req[id]) <= available_memory(s)

add_to_waiting(s, id) ==
    [s EXCEPT !.req[id].status = WAITING,
              !.waiting = Append(@, id)]

\* Variant of admit_to_batch that does not count the admission (C23 fails
\* with it).
admit_to_batch_uncounted(s, id, t) ==
    IF ~can_admit(s, id) THEN [s EXCEPT !.fatal = TRUE]
    ELSE [s EXCEPT !.req[id].status = RUNNING,
                   !.req[id].enter_running_times = Append(@, t),
                   !.running = Append(@, id)]

\* raises RuntimeError (fatal) when the request does not fit
admit_to_batch(s, id, t) ==
    IF ~can_admit(s, id) THEN [s EXCEPT !.fatal = TRUE]
    ELSE [s EXCEPT !.req[id].status = RUNNING,
                   !.req[id].enter_running_times = Append(@, t),
                   !.running = Append(@, id),
                   !.total_admitted = @ + 1]

remove_from_batch(s, id, t) ==
    IF id \in SeqSet(s.running)
    THEN [s EXCEPT !.req[id].exit_running_times = Append(@, t),
                   !.running = SeqRemove(@, id)]
    ELSE s

complete_request(s, id, t) ==
    LET s1 == remove_from_batch(s, id, t) IN
    [s1 EXCEPT !.req[id].status = COMPLETED,
               !.req[id].completion_time = t,
               !.completed_requests = Append(@, id),
               !.total_completed = @ + 1]

\* Variant of the snapshot that is filed under the id of the next batch (C26
\* fails with it).
get_snapshot_next_id(s, t, bid, duration) ==
    [time |-> t,
     batch_id |-> bid + 1,
     waiting_queue_ids |-> s.waiting,
     running_ids |-> s.running,
     swapped_queue_ids |-> s.swapped,
     total_tokens_in_batch |->
         IF s.actual_batch_tokens > 0 THEN s.actual_batch_tokens ELSE gpu_memory_used(s),
     gpu_memory_used |-> gpu_memory_used(s),
     system_memory_total |-> s.M_total,
     batch_duration |-> duration,
     next_time |-> t + duration,
     num_completed |-> s.total_completed,
     num_admitted |-> s.total_admitted,
     num_swapped_out |-> s.total_swapped_out,
     num_swapped_in |-> s.total_swapped_in,
     actual_batch_count |->
         IF s.actual_batch_count > 0 THEN s.actual_batch_count ELSE Len(s.running),
     batch_sacrifice_count |-> s.batch_sacrifices]

get_snapshot(s, t, bid, duration) ==
    [time |-> t,
     batch_id |-> bid,
     waiting_queue_ids |-> s.waiting,
     running_ids |-> s.running,
     swapped_queue_ids |-> s.swapped,
     total_tokens_in_batch |->
         IF s.actual_batch_tokens > 0 THEN s.actual_batch_tokens ELSE gpu_memory_used(s),
     gpu_memory_used |-> gpu_memory_used(s),
     system_memory_total |-> s.M_total,
     batch_duration |-> duration,
     next_time |-> t + duration,
     num_completed |-> s.total_completed,
     num_admitted |-> s.total_admitted,
     num_swapped_out |-> s.total_swapped_out,
     num_swapped_in |-> s.total_swapped_in,
     actual_batch_count |->
         IF s.actual_batch_count > 0 THEN s.actual_batch_count ELSE Len(s.running),
     batch_sacrifice_count |-> s.batch_sacrifices]

\* ----------------------------------------------------------- AdvancedPolicy

\* Variant of the sacrifice that builds its event after the reset of the
\* decode position (C24 fails with it).
_perform_sacrifice_event_after_reset(s, victim, t) ==
    LET s1 == remove_from_batch(s, victim, t)
        s2 == [s1 EXCEPT !.req[victim].current_decode_position = 0,
                         !.total_sacrifices = @ + 1,
                         !.batch_sacrifices = @ + 1]
        sacrifice_event ==
            [time |-> t,
             decode_position |-> s.req[victim].current_decode_position,
             memory_freed |-> current_memory_usage(s2.req[victim]),
             running_count_same_position |-> 1,
             total_running_count |-> Len(s.running)]
    IN [s2 EXCEPT !.req[victim].sacrifice_events = Append(@, sacrifice_event)]

\* _perform_sacrifice: the event is recorded, the victim leaves RUNNING and its
\* decode progress is reset; it is not put into WAITING here
_perform_sacrifice(s, victim, t) ==
    LET v == s.req[victim]
        same_position_count ==
            Cardinality({i \in 1..Len(s.running) :
                s.req[s.running[i]].current_decode_position = v.current_decode_position})
        sacrifice_event ==
            [time |-> t,
             decode_position |-> v.current_decode_position,
             memory_freed |-> current_memory_usage(v),
             running_count_same_position |-> same_position_count,
             total_running_count |-> Len(s.running)]
        s1 == [s EXCEPT !.req[victim].sacrifice_events = Append(@, sacrifice_event)]
        s2 == remove_from_batch(s1, victim, t)
    IN [s2 EXCEPT !.req[victim].current_decode_position = 0,
                  !.total_sacrifices = @ + 1,
                  !.batch_sacrifices = @ + 1]

\* the swap branch of _handle_running_memory_pressure
swap_out_victim(s, victim, t) ==
    LET v == s.req[victim]
        swap_event ==
            [swap_out_time |-> t,
             swap_in_time |-> None,
             decode_position |-> v.current_decode_position,
             memory_size |-> current_memory_usage(v)]
        s1 == [s EXCEPT !.req[victim].swap_events = Append(@, swap_event)]
        s2 == remove_from_batch(s1, victim, t)
    IN [s2 EXCEPT !.req[victim].status = SWAPPED,
                  !.swapped = Append(@, victim),
                  !.total_swapped_out = @ + 1]

\* Variant of the admission from SWAPPED that leaves the SwapEvent as it is
\* (C12 fails with it).
admit_from_swapped_event_untouched(s, id, t) ==
    LET s1 == admit_to_batch([s EXCEPT !.swapped = SeqRemove(@, id)], id, t) IN
    IF s1.fatal THEN s1
    ELSE [s1 EXCEPT !.total_swapped_in = @ + 1]

\* admission of one request from SWAPPED (both strategies)
admit_from_swapped(s, id, t) ==
    LET s1 == admit_to_batch([s EXCEPT !.swapped = SeqRemove(@, id)], id, t) IN
    IF s1.fatal THEN s1
    ELSE [s1 EXCEPT !.total_swapped_in = @ + 1,
                    !.req[id].swap_events =
                        IF @ # <<>> THEN [@ EXCEPT ![Len(@)].swap_in_time = t] ELSE @]

\* admission of one request from WAITING (both strategies)
admit_from_waiting(s, id, t) ==
    admit_to_batch([s EXCEPT !.waiting = SeqRemove(@, id)], id, t)

RECURSIVE Phase1LoopNoGrowth(_, _, _, _)
\* Variant of the Phase 1 loops that admits a request when it just fits,
\* without the token of growth (C14 fails with it).
Phase1LoopNoGrowth(s, q, t, is_swapped) ==
    IF q = <<>> \/ s.fatal THEN s
    ELSE LET id == Head(q)
             required_memory == memory_requirement(s.req[id])
         IN IF required_memory > available_memory(s) THEN s
            ELSE Phase1LoopNoGrowth(IF is_swapped THEN admit_from_swapped(s, id, t)
                                                  ELSE admit_from_waiting(s, id, t),
                                    Tail(q), t, is_swapped)

RECURSIVE Phase1LoopAgainstTotal(_, _, _, _)
\* Variant of the Phase 1 loops that compares a request with M_total instead of
\* the available memory (C31 fails with it).
Phase1LoopAgainstTotal(s, q, t, is_swapped) ==
    IF q = <<>> \/ s.fatal THEN s
    ELSE LET id == Head(q)
             required_memory == memory_requirement(s.req[id]) + 1
         IN IF required_memory > s.M_total THEN s
            ELSE Phase1LoopAgainstTotal(IF is_swapped THEN admit_from_swapped(s, id, t)
                                                      ELSE admit_from_waiting(s, id, t),
                                        Tail(q), t, is_swapped)

RECURSIVE Phase1Loop(_, _, _, _)
\* the loops of _schedule_waiting_no_preemption over a copy q of the queue:
\* stop at the first request that does not fit
Phase1Loop(s, q, t, is_swapped) ==
    IF q = <<>> \/ s.fatal THEN s
    ELSE LET id == Head(q)
             required_memory == memory_requirement(s.req[id]) + 1
         IN IF required_memory > available_memory(s) THEN s
            ELSE Phase1Loop(IF is_swapped THEN admit_from_swapped(s, id, t)
                                          ELSE admit_from_waiting(s, id, t),
                            Tail(q), t, is_swapped)

\* Phase 1: SWAPPED (swap mode) and then WAITING, without preemption
_schedule_waiting_no_preemption(s, t) ==
    LET s1 == IF preemption_mode = "swap" /\ s.swapped # <<>>
              THEN Phase1Loop(s, s.swapped, t, TRUE)
              ELSE s
    IN Phase1Loop(s1, s1.waiting, t, FALSE)

\* max(running_copy, key = last enter time): the first of the maximal elements
lifo_victim(req, running_copy) ==
    LET i == CHOOSE i \in 1..Len(running_copy) :
                /\ \A j \in 1..Len(running_copy) :
                       last_enter_time(req[running_copy[j]])
                           <= last_enter_time(req[running_copy[i]])
                /\ \A j \in 1..(i - 1) :
                       last_enter_time(req[running_copy[j]])
                           < last_enter_time(req[running_copy[i]])
    IN running_copy[i]

RECURSIVE Phase2LoopEvictAll(_, _, _, _, _)
\* Variant of the Phase 2 loop that goes on until RUNNING is empty, whatever
\* memory has been freed (C33 fails with it).
Phase2LoopEvictAll(s, running_copy, memory_to_free, preempted, t) ==
    IF running_copy = <<>>
    THEN [s |-> s, preempted |-> preempted]
    ELSE LET victim == lifo_victim(s.req, running_copy)
             usage == current_memory_usage(s.req[victim])
         IN IF preemption_mode = "sacrifice"
            THEN Phase2LoopEvictAll(_perform_sacrifice(s, victim, t),
                                    SeqRemove(running_copy, victim),
                                    memory_to_free - usage, Append(preempted, victim), t)
            ELSE Phase2LoopEvictAll(swap_out_victim(s, victim, t),
                                    SeqRemove(running_copy, victim),
                                    memory_to_free - usage, preempted, t)

RECURSIVE Phase2LoopOneTokenShort(_, _, _, _, _)
\* Variant of the Phase 2 loop that stops while one token is still to be freed
\* (C38 fails with it).
Phase2LoopOneTokenShort(s, running_copy, memory_to_free, preempted, t) ==
    IF ~(memory_to_free > 1 /\ running_copy # <<>>)
    THEN [s |-> s, preempted |-> preempted]
    ELSE LET victim == lifo_victim(s.req, running_copy)
             usage == current_memory_usage(s.req[victim])
         IN IF preemption_mode = "sacrifice"
            THEN Phase2LoopOneTokenShort(_perform_sacrifice(s, victim, t),
                                         SeqRemove(running_copy, victim),
                                         memory_to_free - usage, Append(preempted, victim), t)
            ELSE Phase2LoopOneTokenShort(swap_out_victim(s, victim, t),
                                         SeqRemove(running_copy, victim),
                                         memory_to_free - usage, preempted, t)

RECURSIVE Phase2Loop(_, _, _, _, _)
\* while memory_to_free > 0 and running_copy: preempt the latest entrant
Phase2Loop(s, running_copy, memory_to_free, preempted, t) ==
    IF ~(memory_to_free > 0 /\ running_copy # <<>>)
    THEN [s |-> s, preempted |-> preempted]
    ELSE LET victim == lifo_victim(s.req, running_copy)
             usage == current_memory_usage(s.req[victim])
         IN IF preemption_mode = "sacrifice"
            THEN Phase2Loop(_perform_sacrifice(s, victim, t),
                            SeqRemove(running_copy, victim),
                            memory_to_free - usage, Append(preempted, victim), t)
            ELSE Phase2Loop(swap_out_victim(s, victim, t),
                            SeqRemove(running_copy, victim),
                            memory_to_free - usage, preempted, t)

\* Variant of Phase 2 that looks at the memory in use, without the token that
\* every RUNNING request is about to add (C34 fails with it).
_handle_running_memory_pressure_without_growth(s, t) ==
    LET total_memory == gpu_memory_used(s) IN
    IF total_memory <= s.M_total
    THEN [s |-> s, preempted |-> <<>>]
    ELSE Phase2Loop(s, s.running, total_memory - s.M_total, <<>>, t)

\* Phase 2: every RUNNING request grows by one token; preempt until that fits.
\* Returns the new state and the list of sacrificed requests.
_handle_running_memory_pressure(s, t) ==
    LET total_memory_after_growth == gpu_memory_used(s) + Len(s.running) IN
    IF total_memory_after_growth <= s.M_total
    THEN [s |-> s, preempted |-> <<>>]
    ELSE Phase2Loop(s, s.running, total_memory_after_growth - s.M_total, <<>>, t)

RECURSIVE MarkWaiting(_, _)
MarkWaiting(req, ids) ==
    IF ids = <<>> THEN req
    ELSE MarkWaiting([req EXCEPT ![Head(ids)].status = WAITING], Tail(ids))

RECURSIVE Reverse(_)
Reverse(q) == IF q = <<>> THEN <<>> ELSE Append(Reverse(Tail(q)), Head(q))

\* Variant of Phase 3 that inserts the preempted requests at the head one by
\* one, without reversing the list first (C11 fails with it).
requeue_preempted_one_by_one(s, preempted) ==
    [s EXCEPT !.req = MarkWaiting(@, preempted),
              !.waiting = Reverse(preempted) \o @]

\* Variant of Phase 3 that forgets the preempted requests (C2 fails with it).
requeue_preempted_dropped(s, preempted) == s

\* Phase 3: the preempted requests go to the head of WAITING, in their order
requeue_preempted(s, preempted) ==
    [s EXCEPT !.req = MarkWaiting(@, preempted),
              !.waiting = preempted \o @]

RECURSIVE SelectLoopStoppingAtFirst(_, _, _)
\* Variant of the selection loop that stops at the first request that does not
\* fit (C36 fails with it).
SelectLoopStoppingAtFirst(s, q, admitted) ==
    IF q = <<>> THEN [s |-> s, admitted |-> admitted]
    ELSE LET required_memory == memory_requirement(s.req[Head(q)]) + 1 IN
         IF required_memory <= available_memory(s)
         THEN SelectLoopStoppingAtFirst([s EXCEPT !.M_total = @ - required_memory],
                                        Tail(q), Append(admitted, Head(q)))
         ELSE [s |-> s, admitted |-> admitted]

RECURSIVE SelectLoop(_, _, _)
\* first loop of _try_admit_without_preemption: the requests that fit, each
\* selection lowering M_total by its memory_requirement + 1
SelectLoop(s, q, admitted) ==
    IF q = <<>> THEN [s |-> s, admitted |-> admitted]
    ELSE LET required_memory == memory_requirement(s.req[Head(q)]) + 1 IN
         IF required_memory <= available_memory(s)
         THEN SelectLoop([s EXCEPT !.M_total = @ - required_memory], Tail(q),
                         Append(admitted, Head(q)))
         ELSE SelectLoop(s, Tail(q), admitted)

RECURSIVE RestoreLoopWithoutGrowth(_, _)
\* Variant of the restoring loop that gives back memory_requirement only, not
\* the token of growth that the selection took with it (C37 fails with it).
RestoreLoopWithoutGrowth(s, admitted) ==
    IF admitted = <<>> THEN s
    ELSE RestoreLoopWithoutGrowth(
             [s EXCEPT !.M_total = @ + memory_requirement(s.req[Head(admitted)])],
             Tail(admitted))

RECURSIVE RestoreLoop(_, _)
\* second loop: M_total is given back what the selection took
RestoreLoop(s, admitted) ==
    IF admitted = <<>> THEN s
    ELSE RestoreLoop([s EXCEPT !.M_total = @ + memory_requirement(s.req[Head(admitted)]) + 1],
                     Tail(admitted))

RECURSIVE AdmitLoop(_, _, _, _)
\* third loop: the admissions themselves
AdmitLoop(s, admitted, t, is_swapped) ==
    IF admitted = <<>> \/ s.fatal THEN s
    ELSE AdmitLoop(IF is_swapped THEN admit_from_swapped(s, Head(admitted), t)
                                 ELSE admit_from_waiting(s, Head(admitted), t),
                   Tail(admitted), t, is_swapped)

_try_admit_without_preemption(s, q, t, is_swapped) ==
    LET sel == SelectLoop(s, q, <<>>) IN
    AdmitLoop(RestoreLoop(sel.s, sel.admitted), sel.admitted, t, is_swapped)

_admission_control_conservative(s, t) ==
    LET s1 == IF preemption_mode = "swap" /\ s.swapped # <<>>
              THEN _try_admit_without_preemption(s, s.swapped, t, TRUE)
              ELSE s
    IN IF s1.fatal THEN s1
       ELSE _try_admit_without_preemption(s1, s1.waiting, t, FALSE)

\* s1 is the state after Phase 1 and p2 the result of Phase 2
perform_scheduling_cycle(s, t) ==
    IF preemption_strategy = "conservative"
    THEN _admission_control_conservative(s, t)
    ELSE Only({IF s1.fatal THEN s1
               ELSE Only({requeue_preempted(p2.s, p2.preempted) :
                             p2 \in {_handle_running_memory_pressure(s1, t)}}) :
                  s1 \in {_schedule_waiting_no_preemption(s, t)}})

\* ---------------------------------------------------------------- simulator

RECURSIVE SelectBatchLoopWithinB(_, _, _, _)
\* Variant of the loop of select_execution_batch that never goes over B, not
\* even for the first request (C35 fails with it).
SelectBatchLoopWithinB(s, q, execution_batch, total_tokens) ==
    IF q = <<>> THEN [batch |-> execution_batch, tokens |-> total_tokens]
    ELSE LET req_tokens == memory_requirement(s.req[Head(q)]) + 1 IN
         IF total_tokens + req_tokens > s.B
         THEN [batch |-> execution_batch, tokens |-> total_tokens]
         ELSE SelectBatchLoopWithinB(s, Tail(q), Append(execution_batch, Head(q)),
                                     total_tokens + req_tokens)

RECURSIVE SelectBatchLoop(_, _, _, _)
\* the loop of select_execution_batch over RUNNING
SelectBatchLoop(s, q, execution_batch, total_tokens) ==
    IF q = <<>> THEN [batch |-> execution_batch, tokens |-> total_tokens]
    ELSE LET req_tokens == memory_requirement(s.req[Head(q)]) + 1 IN
         IF total_tokens + req_tokens > s.B
         THEN IF execution_batch = <<>>
              THEN [batch |-> <<Head(q)>>, tokens |-> total_tokens + req_tokens]
              ELSE [batch |-> execution_batch, tokens |-> total_tokens]
         ELSE SelectBatchLoop(s, Tail(q), Append(execution_batch, Head(q)),
                              total_tokens + req_tokens)

\* Variant of the batch selection that executes all of RUNNING, whatever B is
\* (C7 fails with it).
select_execution_batch_all_running(s) ==
    [batch |-> s.running, tokens |-> gpu_memory_used(s) + Len(s.running)]

\* the executed subset of RUNNING (current_execution_batch) and its token count
\* (current_batch_tokens)
select_execution_batch(s) == SelectBatchLoop(s, s.running, <<>>, 0)

\* Variant of the decode step that advances every RUNNING request, as
\* BaseSimulator.advance_decode_positions does (C22 fails with it).
advance_decode_positions_all_running(s, batch) ==
    [s EXCEPT !.req = [id \in DOMAIN s.req |->
        IF id \in SeqSet(s.running)
        THEN [s.req[id] EXCEPT !.current_decode_position = @ + 1]
        ELSE s.req[id]]]

RECURSIVE advance_decode_positions_for_batch(_, _)
advance_decode_positions_for_batch(s, batch) ==
    IF batch = <<>> THEN s
    ELSE advance_decode_positions_for_batch(
             [s EXCEPT !.req[Head(batch)].current_decode_position = @ + 1], Tail(batch))

RECURSIVE extract_first_completed(_, _, _)
\* Variant of the completion sweep that stops at the first completed request
\* (C21 fails with it).
extract_first_completed(s, q, t) ==
    IF q = <<>> THEN s
    ELSE IF is_completed(s.req[Head(q)]) THEN complete_request(s, Head(q), t)
    ELSE extract_first_completed(s, Tail(q), t)

RECURSIVE extract_completed_requests(_, _, _)
\* the completion sweep over a copy q of RUNNING
extract_completed_requests(s, q, t) ==
    IF q = <<>> THEN s
    ELSE extract_completed_requests(
             IF is_completed(s.req[Head(q)]) THEN complete_request(s, Head(q), t) ELSE s,
             Tail(q), t)

RECURSIVE ArrivalPump(_, _, _)
\* run(): while the head of the pending trace has arrived, move it to WAITING
ArrivalPump(s, pending, t) ==
    IF pending # <<>> /\ s.req[Head(pending)].arrival_time <= t
    THEN ArrivalPump(add_to_waiting(s, Head(pending)), Tail(pending), t)
    ELSE [s |-> s, pending |-> pending]

\* Variant of the ratio test with a strict comparison (C9 fails with it).
ratio_strictly_above_threshold(s) ==
    IF s.M_total > 0
    THEN gpu_memory_used(s) * 10 > admission_threshold * s.M_total
    ELSE 0 > admission_threshold

\* memory_usage_ratio >= admission_threshold, the ratio being 0 when M_total = 0
ratio_at_least_threshold(s) ==
    IF s.M_total > 0
    THEN gpu_memory_used(s) * 10 >= admission_threshold * s.M_total
    ELSE 0 >= admission_threshold

\* _check_admission_allowed: the answer
admission_allowed(s) ==
    \/ ~admission_enabled
    \/ admission_threshold >= 10
    \/ ~ratio_at_least_threshold(s)

\* _check_admission_allowed: its statistics (the largest ratio is kept as the
\* largest gpu_memory_used, M_total being fixed)
admission_checked(a, s, t) ==
    IF ~admission_enabled \/ admission_threshold >= 10 THEN a
    ELSE [a EXCEPT
            !.max_memory_usage =
                IF s.M_total > 0 /\ gpu_memory_used(s) > @ THEN gpu_memory_used(s) ELSE @,
            !.time_above_threshold =
                IF ratio_at_least_threshold(s) /\ a.last_check_time > 0
                THEN @ + (t - a.last_check_time) ELSE @,
            !.last_check_time = t]

\* step(), rejected branch: counted when something is queued
admission_rejected(a, s, bid) ==
    IF Len(s.waiting) > 0 \/ Len(s.swapped) > 0
    THEN [a EXCEPT !.rejected_count = @ + 1,
                   !.rejected_batches = Append(@, bid)]
    ELSE a

\* the scheduling call of step() when RUNNING is empty
schedule_before_step(s, t) ==
    IF simulator = "overlay" /\ ~admission_allowed(s) THEN s
    ELSE perform_scheduling_cycle(s, t)

\* the scheduling call at the end of step(); the overlay calls only the
\* memory-pressure phase when admission is blocked, and drops its result
schedule_after_step(s, t) ==
    IF simulator = "overlay"
    THEN LET s1 == IF admission_allowed(s)
                   THEN perform_scheduling_cycle(s, t)
                   ELSE _handle_running_memory_pressure(s, t).s
         IN [s1 EXCEPT !.batch_sacrifices = 0]
    ELSE perform_scheduling_cycle(s, t)

\* ------------------------------------------------------------------ actions

InitialAdmission ==
    [rejected_count |-> 0,
     rejected_batches |-> <<>>,
     max_memory_usage |-> 0,
     time_above_threshold |-> 0,
     last_check_time |-> 0]

RECURSIVE ArrivalTimes(_, _)
\* the arrival times of a trace with the given inter-arrival gaps
ArrivalTimes(gaps, n) ==
    IF n = 0 THEN <<>>
    ELSE LET prev == ArrivalTimes(gaps, n - 1) IN
         Append(prev, (IF n = 1 THEN 0 ELSE prev[n - 1]) + gaps[n])

\* run(): the pending trace at the start.  The state-saving simulator keeps
\* the requests with arrival_time > its initial time (0); the others keep all.
RECURSIVE InitialPending(_, _, _)
InitialPending(sim, reqs, i) ==
    IF i > Len(reqs) THEN <<>>
    ELSE (IF sim = "state" /\ ~(reqs[i].arrival_time > 0) THEN <<>> ELSE <<i>>)
         \o InitialPending(sim, reqs, i + 1)

\* a truncation_config without a generation config
NoGeneration == [generation |-> FALSE, requests |-> <<>>]

\* generate_requests_by_type: up to MaxNewReqs requests of the classes tys,
\* sorted by arrival time
GeneratedTraces(tys) ==
    UNION {{[generation |-> TRUE,
             requests |-> [i \in 1..n |-> <<ArrivalTimes(gaps, n)[i],
                                            types[i][1], types[i][2]>>]] :
               gaps \in [1..n -> ArrivalGaps], types \in [1..n -> tys]} :
           n \in 0..MaxNewReqs}

\* the state after construction, for input traces of at most N requests of the
\* classes tys with inter-arrival gaps gapset, truncation points tbs and
\* replacement traces gens
ConfigInitFor(sims, modes, strategies, Ms, Bs, N, tys, gapset, tbs, gens, durs) ==
    /\ simulator \in sims
    /\ preemption_mode \in modes
    /\ preemption_strategy \in strategies
    /\ \E ac \in {<<FALSE, 10>>} \cup {<<TRUE, th>> : th \in Thresholds} :
          /\ simulator # "overlay" => ac = <<FALSE, 10>>
          /\ admission_enabled = ac[1]
          /\ admission_threshold = ac[2]
    /\ \E n \in 0..N :
       \E gaps \in [1..n -> gapset] :
       \E types \in [1..n -> tys] :
          LET at == ArrivalTimes(gaps, n) IN
          trace = [i \in 1..n |-> NewRequest(at[i], types[i][1], types[i][2])]
    /\ \E M \in Ms : \E B \in Bs : state = NewSystemState(M, B, trace)
    /\ pending_requests = InitialPending(simulator, trace, 1)
    /\ time = 0
    /\ batch_id = 0
    /\ snapshots = <<>>
    /\ admission = InitialAdmission
    /\ pc = "loop"
    /\ truncation_batch_id \in tbs
    /\ truncation_config \in gens
    /\ truncation_applied = FALSE
    /\ truncation_time = None
    /\ all_requests = [i \in 1..Len(trace) |-> i]
    /\ req_id = [i \in 1..Len(trace) |-> i - 1]
    /\ \E d \in durs : d_0 = d[1] /\ d_1 = d[2]

ConfigInitWith(sims, modes, strategies, Ms, Bs, N, tys, gapset, tbs, gens) ==
    ConfigInitFor(sims, modes, strategies, Ms, Bs, N, tys, gapset, tbs, gens, Durations)

ConfigInitOf(sims, modes, strategies, Ms, Bs, N, tys) ==
    ConfigInitWith(sims, modes, strategies, Ms, Bs, N, tys, ArrivalGaps, {None},
                   {NoGeneration})

ConfigInit(sims, modes, strategies, Ms, Bs) ==
    ConfigInitOf(sims, modes, strategies, Ms, Bs, MaxReqs, RequestTypes)

Init ==
    ConfigInit({"base", "state", "overlay"}, {"swap", "sacrifice"},
               {"aggressive", "conservative"}, MTotals, Budgets)

\* Variant of the truncation test that forgets truncation_applied (C17 fails
\* with it).
TruncationDueEveryPass ==
    /\ truncation_batch_id # None
    /\ batch_id = truncation_batch_id

\* run(): the truncation point has been reached and not yet used
TruncationDue ==
    /\ truncation_batch_id # None
    /\ batch_id = truncation_batch_id
    /\ ~truncation_applied

\* run(): the end of a pass over the head of the main loop: idle fast-forward
\* to the next arrival, end of the run, or a call of step()
AfterArrivals(s, pending) ==
    IF s.running = <<>> /\ s.waiting = <<>> /\ s.swapped = <<>>
    THEN IF pending # <<>>
         THEN /\ time' = s.req[Head(pending)].arrival_time
              /\ pc' = "loop"
         ELSE /\ time' = time
              /\ pc' = "done"
    ELSE /\ time' = time
         /\ pc' = "step"

\* run(): one pass over the head of the main loop: loop condition, arrival
\* pump, idle fast-forward; at the truncation point the pass goes on in
\* ApplyTruncation
LoopHead ==
    /\ pc = "loop"
    /\ IF ~(pending_requests # <<>> \/ state.running # <<>>
            \/ state.waiting # <<>> \/ state.swapped # <<>>)
       THEN /\ pc' = "done"
            /\ UNCHANGED <<state, pending_requests, time>>
       ELSE \E p \in {ArrivalPump(state, pending_requests, time)} :
            /\ state' = p.s
            /\ pending_requests' = p.pending
            /\ IF TruncationDue
               THEN /\ time' = time
                    /\ pc' = "truncate"
               ELSE AfterArrivals(p.s, p.pending)
    /\ UNCHANGED <<config_vars, truncation_vars, batch_id, snapshots, admission>>

\* step(), first part: with RUNNING empty a batch is built; step() returns
\* False, and run() stops, when RUNNING stays empty
StepSchedule ==
    /\ pc = "step"
    /\ IF state.running = <<>> /\ state.waiting = <<>> /\ state.swapped = <<>>
       THEN /\ pc' = "done"
            /\ UNCHANGED <<state, admission>>
       ELSE IF state.running = <<>>
       THEN \E s1 \in {schedule_before_step(state, time)} :
            /\ state' = s1
            /\ admission' =
                 IF simulator = "overlay"
                 THEN LET a == admission_checked(admission, state, time) IN
                      IF admission_allowed(state) THEN a
                      ELSE admission_rejected(a, state, batch_id)
                 ELSE admission
            /\ pc' = IF s1.fatal THEN "crashed"
                     ELSE IF s1.running = <<>> THEN "done" ELSE "exec"
       ELSE /\ pc' = "exec"
            /\ UNCHANGED <<state, admission>>
    /\ UNCHANGED <<config_vars, truncation_vars, pending_requests, time, batch_id, snapshots>>

\* the longest decode_length of the trace (0 for the empty trace)
LongestDecode ==
    IF trace = <<>> THEN 0
    ELSE CHOOSE d \in {trace[i].decode_length : i \in DOMAIN trace} :
            \A i \in DOMAIN trace : trace[i].decode_length <= d

RECURSIVE TotalDecode(_)
\* the tokens that the requests of a trace have to decode
TotalDecode(tr) ==
    IF tr = <<>> THEN 0 ELSE Head(tr).decode_length + TotalDecode(Tail(tr))

\* a run is followed for BatchCap batches; a trace with a request too long
\* for that is followed for as many batches as it has tokens to decode
BatchLimit == IF LongestDecode + 3 > BatchCap THEN TotalDecode(trace) + 3 ELSE BatchCap

\* step(), second part: batch selection, snapshot, decode step, time advance,
\* completion sweep
StepExecute ==
    /\ pc = "exec"
    /\ batch_id < BatchLimit
    /\ \E sel \in {select_execution_batch(state)} :
       \E s1 \in {[state EXCEPT !.actual_batch_count = Len(sel.batch),
                               !.actual_batch_tokens = sel.tokens]} :
       \E s3 \in {advance_decode_positions_for_batch(
                     IF simulator = "state" THEN [s1 EXCEPT !.batch_sacrifices = 0] ELSE s1,
                     sel.batch)} :
       \E running_copy \in {s3.running} :
       LET snapshot_duration ==
               IF simulator = "overlay" THEN d_0 + d_1 * sel.tokens
               ELSE d_0 + d_1 * gpu_memory_used(s1)
           duration == d_0 + d_1 * sel.tokens
       IN /\ snapshots' = Append(snapshots, get_snapshot(s1, time, batch_id, snapshot_duration))
          /\ time' = time + duration
          /\ batch_id' = batch_id + 1
          /\ state' = extract_completed_requests(s3, running_copy, time + duration)
    /\ pc' = "post"
    /\ UNCHANGED <<config_vars, truncation_vars, pending_requests, admission>>

\* Variant of the last part of step() in which the scheduling call may be
\* left out (C29 fails with it).
StepPostScheduleOptional ==
    /\ pc = "post"
    /\ \E s1 \in {schedule_after_step(state, time), state} :
       /\ state' = s1
       /\ pc' = IF s1.fatal THEN "crashed" ELSE "loop"
    /\ admission' = IF simulator = "overlay"
                    THEN admission_checked(admission, state, time)
                    ELSE admission
    /\ UNCHANGED <<config_vars, truncation_vars, pending_requests, time, batch_id, snapshots>>

\* step(), last part: the scheduling call that prepares the next batch
StepPostSchedule ==
    /\ pc = "post"
    /\ \E s1 \in {schedule_after_step(state, time)} :
       /\ state' = s1
       /\ pc' = IF s1.fatal THEN "crashed" ELSE "loop"
    /\ admission' = IF simulator = "overlay"
                    THEN admission_checked(admission, state, time)
                    ELSE admission
    /\ UNCHANGED <<config_vars, truncation_vars, pending_requests, time, batch_id, snapshots>>

Next ==
    \/ LoopHead
    \/ StepSchedule
    \/ StepExecute
    \/ StepPostSchedule

Spec == Init /\ [][Next]_vars

\* the requests of all_requests that are not in the pending trace (req_ids are
\* pairwise distinct in the loaded trace, so == on requests is identity)
NotPending(all, pending) ==
    SelectSeq(all, LAMBDA r : r \notin SeqSet(pending))

\* Variant of the replacement requests that keeps the generator's arrival
\* times (C18 fails with it).
NewRequestsNotOffset(gen, t) ==
    [i \in 1..Len(gen) |-> NewRequest(gen[i][1], gen[i][2], gen[i][3])]

\* _generate_new_requests and lines 190-193: the replacement requests, their
\* arrival times offset by the current time
NewRequests(gen, t) ==
    [i \in 1..Len(gen) |-> NewRequest(gen[i][1] + t, gen[i][2], gen[i][3])]

\* Variant of the replacement req_ids that keeps the generator's numbering
\* from 0 (C20 fails with it).
NewReqIdsFromZero(arrived, n) ==
    [i \in 1..n |-> i - 1]

\* line 193: req.req_id = len(self.all_requests) + i, after the pending
\* requests were dropped from all_requests
NewReqIds(arrived, n) ==
    [i \in 1..n |-> Len(arrived) + (i - 1)]

\* _apply_truncation_and_get_new_requests and lines 86-94 of run(): the
\* pending trace is dropped and replaced by the generated requests
ApplyTruncation ==
    /\ pc = "truncate"
    /\ \E arrived \in {NotPending(all_requests, pending_requests)} :
       \E new_requests \in {IF truncation_config.generation
                              THEN NewRequests(truncation_config.requests, time)
                              ELSE <<>>} :
       \E handles \in {[i \in 1..Len(new_requests) |-> Len(state.req) + i]} :
          /\ state' = [state EXCEPT !.req = @ \o new_requests]
          /\ req_id' = req_id \o NewReqIds(arrived, Len(new_requests))
          /\ all_requests' = arrived \o handles
          /\ pending_requests' = handles
    /\ truncation_time' = time
    /\ truncation_applied' = TRUE
    /\ pc' = "idle"
    /\ UNCHANGED <<config_vars, time, batch_id, snapshots, admission>>

\* run(), lines 97-107: the rest of the pass over the loop head after a
\* truncation
AfterTruncation ==
    /\ pc = "idle"
    /\ AfterArrivals(state, pending_requests)
    /\ UNCHANGED <<config_vars, truncation_vars, state, pending_requests, batch_id,
                   snapshots, admission>>

NextTruncation ==
    \/ Next
    \/ ApplyTruncation
    \/ AfterTruncation

\* runs of the two truncation simulators with a truncation point
InitTruncation ==
    ConfigInitWith({"truncation", "overlay"}, {"swap", "sacrifice"},
                   {"aggressive", "conservative"}, {4}, {6}, MaxReqs,
                   {<<1, 1>>, <<1, 3>>}, TruncationGaps, TruncationBatchIds,
                   {NoGeneration} \cup GeneratedTraces({<<1, 1>>}))

SpecTruncation == InitTruncation /\ [][NextTruncation]_vars

\* longer traces of short requests under the aggressive strategy: three
\* requests can be RUNNING together while a fourth waits
InitWide ==
    ConfigInitOf({"base", "state", "overlay"}, {"swap", "sacrifice"}, {"aggressive"},
                 {3, 4}, {6}, MaxReqsWide, {<<1, 1>>, <<1, 3>>})

SpecWide == InitWide /\ [][Next]_vars

\* ------------------------------------------------------------------- claims

Occurrences(q, id) == Cardinality({i \in 1..Len(q) : q[i] = id})

\* in how many of the five places (pending trace, WAITING, RUNNING, SWAPPED,
\* COMPLETED) a request is, counted with multiplicity
Places(id) ==
    Occurrences(pending_requests, id) + Occurrences(state.waiting, id)
    + Occurrences(state.running, id) + Occurrences(state.swapped, id)
    + Occurrences(state.completed_requests, id)

StatusNamesContainer(id) ==
    /\ id \in SeqSet(state.waiting) => state.req[id].status = WAITING
    /\ id \in SeqSet(state.running) => state.req[id].status = RUNNING
    /\ id \in SeqSet(state.swapped) => state.req[id].status = SWAPPED
    /\ id \in SeqSet(state.completed_requests) => state.req[id].status = COMPLETED

\* the ratio test of a scheduling call, written out: gpu_memory_used / M_total >= t
RatioReached ==
    gpu_memory_used(state) * 10 >= admission_threshold * state.M_total

\* the states from which step() makes a scheduling call
AtSchedulingCall ==
    \/ pc = "step" /\ state.running = <<>>
    \/ pc = "post"

\* C1: at every snapshot gpu_memory_used is at most M_total, in all four
\* configurations swap/sacrifice x aggressive/conservative.
C1_SnapshotMemoryWithinTotal ==
    \A i \in 1..Len(snapshots) :
        snapshots[i].gpu_memory_used <= snapshots[i].system_memory_total

\* C2: in the base simulator every request of the trace is in exactly one of
\* pending trace, WAITING, RUNNING, SWAPPED, COMPLETED, its status names the
\* container it is in, and the five sizes add up to the size of the trace.
C2_BasePartition ==
    simulator = "base" =>
        /\ \A id \in DOMAIN trace : Places(id) = 1 /\ StatusNamesContainer(id)
        /\ Len(state.waiting) + Len(state.running) + Len(state.swapped)
           + Len(state.completed_requests) + Len(pending_requests) = Len(trace)

\* C2 witness: a loop-iteration boundary of the base simulator after a
\* sacrifice and a completion, with a request still queued.
C2_Witness ==
    /\ simulator = "base"
    /\ pc = "loop"
    /\ state.total_sacrifices > 0
    /\ state.completed_requests # <<>>
    /\ state.waiting # <<>>

\* C3: overlay, sacrifice mode: the requests preempted by the
\* memory-pressure-only call of a blocked step are in WAITING, with status
\* WAITING, when the step returns.
C3_BlockedPreemptionRequeues ==
    [][(/\ pc = "post"
        /\ simulator = "overlay"
        /\ preemption_mode = "sacrifice"
        /\ ~admission_allowed(state))
       => \A id \in SeqSet(state.running) :
              id \notin SeqSet(state'.running)
                  => /\ id \in SeqSet(state'.waiting)
                     /\ state'.req[id].status = WAITING]_vars

AllCompleted ==
    /\ \A id \in DOMAIN trace : state.req[id].status = COMPLETED
    /\ Len(state.completed_requests) = Len(trace)

\* the configurations of C4: aggressive + sacrifice, B >= M_total, every request
\* with prefill_length >= 1 and prefill_length + decode_length <= M_total, in
\* the base and the state-saving simulator
InitC4 ==
    /\ ConfigInit({"base", "state"}, {"sacrifice"}, {"aggressive"}, MTotals, MTotals)
    /\ state.B >= state.M_total
    /\ \A id \in DOMAIN trace :
          /\ trace[id].prefill_length >= 1
          /\ trace[id].prefill_length + trace[id].decode_length <= state.M_total

\* run() goes on as long as its loop condition holds
SpecC4 == InitC4 /\ [][Next]_vars /\ WF_vars(Next)

\* C4: under the configurations of InitC4 every request eventually reaches
\* COMPLETED and the run ends with WAITING, RUNNING and SWAPPED empty and
\* gpu_memory_used = 0.
C4_AllEventuallyComplete ==
    <>(/\ pc = "done"
       /\ AllCompleted
       /\ state.waiting = <<>> /\ state.running = <<>> /\ state.swapped = <<>>
       /\ pending_requests = <<>>
       /\ gpu_memory_used(state) = 0)

\* run() has taken every request of the trace into its pending list (the
\* state-saving simulator leaves out those with arrival_time <= its initial time)
NoneSkipped ==
    \A id \in DOMAIN trace : simulator = "state" => trace[id].arrival_time > 0

\* The scheduling itself does complete every request under the configurations
\* of InitC4: the runs of SpecC4 that do not end with all requests COMPLETED
\* are those in which run() skipped a request.
AllEventuallyCompleteUnlessSkipped == NoneSkipped => C4_AllEventuallyComplete

\* every other request of the trace had completed by time t
AloneAt(id, t) ==
    \A o \in DOMAIN trace \ {id} :
        /\ state.req[o].status = COMPLETED
        /\ state.req[o].completion_time <= t

\* C5: run() terminates after finitely many batches.  The run is
\* deterministic, so a terminating run never comes back to a situation it has
\* been in: a request that is the only unfinished one of the trace is not
\* sacrificed twice at the same decode position.
C5_NoSacrificeRepeats ==
    \A id \in DOMAIN trace :
        LET ev == state.req[id].sacrifice_events IN
        \A i \in 1..Len(ev) : \A j \in (i + 1)..Len(ev) :
            ~(/\ AloneAt(id, ev[i].time)
              /\ ev[i].decode_position = ev[j].decode_position
              /\ ev[i].total_running_count = 1
              /\ ev[j].total_running_count = 1)

\* C6: run() leaves its main loop only with the pending trace, WAITING,
\* RUNNING and SWAPPED all empty.
C6_ExitOnlyWhenDrained ==
    pc = "done" =>
        /\ pending_requests = <<>>
        /\ state.waiting = <<>>
        /\ state.running = <<>>
        /\ state.swapped = <<>>

\* C7: at every snapshot the tokens of the executed subset are at most B,
\* unless the first RUNNING request alone exceeds B and is executed alone.
C7_BatchTokensWithinB ==
    /\ \A i \in 1..Len(snapshots) :
          \/ snapshots[i].total_tokens_in_batch <= state.B
          \/ snapshots[i].actual_batch_count = 1
    /\ \/ state.actual_batch_tokens <= state.B
       \/ state.actual_batch_count = 1

\* C7 witness: a snapshot of a batch cut by B (fewer executed than RUNNING)
\* and a snapshot of a single request that exceeds B.
C7_Witness ==
    /\ \E i \in 1..Len(snapshots) :
          /\ snapshots[i].total_tokens_in_batch > state.B
          /\ snapshots[i].actual_batch_count = 1
    /\ \E i \in 1..Len(snapshots) :
          /\ snapshots[i].total_tokens_in_batch <= state.B
          /\ snapshots[i].actual_batch_count < Len(snapshots[i].running_ids)

\* C8: with the conservative strategy no request has a SacrificeEvent or a
\* SwapEvent and total_sacrifices = total_swapped_out = 0, in the base
\* simulator and under the admission-control overlay.
C8_ConservativeNeverPreempts ==
    preemption_strategy = "conservative" =>
        /\ state.total_sacrifices = 0
        /\ state.total_swapped_out = 0
        /\ \A id \in DOMAIN trace :
              /\ state.req[id].sacrifice_events = <<>>
              /\ state.req[id].swap_events = <<>>

\* some queued request that the scheduling cycle reaches first would fit
SomeHeadFits ==
    \/ /\ preemption_mode = "swap" /\ state.swapped # <<>>
       /\ memory_requirement(state.req[Head(state.swapped)]) + 1 <= available_memory(state)
    \/ /\ state.waiting # <<>>
       /\ memory_requirement(state.req[Head(state.waiting)]) + 1 <= available_memory(state)

\* C9: admission control enabled, threshold t in [0, 1]: a scheduling call made
\* with gpu_memory_used / M_total >= t moves no request from WAITING or SWAPPED
\* to RUNNING; with the ratio below t the normal cycle runs (it admits the
\* queue head that fits).
C9_BlockedCallAdmitsNothing ==
    [][(/\ simulator = "overlay" /\ admission_enabled
        /\ state.M_total > 0
        /\ AtSchedulingCall)
       => IF RatioReached
          THEN /\ state'.total_admitted = state.total_admitted
               /\ \A id \in SeqSet(state.waiting) \cup SeqSet(state.swapped) :
                      id \notin SeqSet(state'.running)
          ELSE SomeHeadFits => state'.total_admitted > state.total_admitted]_vars

\* C9 witness: after a step, a request waits that would fit, and the ratio has
\* reached a threshold below 1.
C9_Witness ==
    /\ simulator = "overlay" /\ admission_enabled
    /\ pc = "post"
    /\ state.M_total > 0
    /\ admission_threshold > 0 /\ admission_threshold < 10
    /\ RatioReached
    /\ SomeHeadFits

\* C10: rejected_count goes up by one in every step whose scheduling call is
\* blocked (ratio >= threshold) while WAITING or SWAPPED is non-empty, and
\* only then.
C10_RejectedCountsBlockedSteps ==
    [][(simulator = "overlay" /\ AtSchedulingCall)
       => admission'.rejected_count =
              admission.rejected_count
              + (IF /\ ~admission_allowed(state)
                    /\ (state.waiting # <<>> \/ state.swapped # <<>>)
                 THEN 1 ELSE 0)]_vars

\* the requests sacrificed by the step from the current state
SacrificedNow ==
    {id \in DOMAIN state.req :
        Len(state'.req[id].sacrifice_events) > Len(state.req[id].sacrifice_events)}

\* the step is a full scheduling cycle of the aggressive strategy
AtAggressiveCycle ==
    /\ AtSchedulingCall
    /\ preemption_strategy = "aggressive"
    /\ simulator = "overlay" => admission_allowed(state)

\* C11: after an aggressive sacrifice-mode scheduling cycle every request
\* preempted in Phase 2 has current_decode_position = 0 and status WAITING, and
\* the preempted requests are the head of WAITING in their eviction order (the
\* running count recorded at each eviction goes down), ahead of every request
\* that was in WAITING before.
C11_PreemptedAtHeadInOrder ==
    [][(AtAggressiveCycle /\ preemption_mode = "sacrifice")
       => LET k == Cardinality(SacrificedNow)
              w == state'.waiting
              rc(id) == Last(state'.req[id].sacrifice_events).total_running_count
          IN /\ k <= Len(w)
             /\ {w[i] : i \in 1..k} = SacrificedNow
             /\ \A id \in SacrificedNow :
                    /\ state'.req[id].current_decode_position = 0
                    /\ state'.req[id].status = WAITING
             /\ \A i \in 1..k : \A j \in (i + 1)..k : rc(w[i]) > rc(w[j])
             /\ \A i \in (k + 1)..Len(w) : w[i] \in SeqSet(state.waiting)]_vars

\* C11 witness: two requests sacrificed by the same cycle are the first two of
\* WAITING, behind them a request that was not preempted.
C11_Witness ==
    /\ preemption_mode = "sacrifice" /\ preemption_strategy = "aggressive"
    /\ Len(state.waiting) >= 3
    /\ LET a == state.req[state.waiting[1]]
           b == state.req[state.waiting[2]]
           c == state.req[state.waiting[3]]
       IN /\ a.sacrifice_events # <<>> /\ b.sacrifice_events # <<>>
          /\ Last(a.sacrifice_events).time = time
          /\ Last(b.sacrifice_events).time = time
          /\ (c.sacrifice_events # <<>> => Last(c.sacrifice_events).time < time)

\* the latest SwapEvent of the request has no swap_in_time
SwapOpen(r) == r.swap_events # <<>> /\ Last(r.swap_events).swap_in_time = None

\* C12: swap mode: a victim moves RUNNING -> SWAPPED with a new SwapEvent
\* without swap_in_time; its current_decode_position and memory_requirement
\* do not change while it is SWAPPED; when it is admitted again its latest
\* SwapEvent receives swap_in_time; a request is SWAPPED iff its latest
\* SwapEvent has no swap_in_time.
C12_SwapKeepsProgress ==
    [][\A id \in DOMAIN trace :
         LET r == state.req[id]
             n == state'.req[id]
         IN /\ (n.status = SWAPPED) <=> SwapOpen(n)
            /\ (n.status = SWAPPED) <=> (id \in SeqSet(state'.swapped))
            /\ (r.status = RUNNING /\ n.status = SWAPPED)
                   => /\ Len(n.swap_events) = Len(r.swap_events) + 1
                      /\ Last(n.swap_events).swap_out_time = time
                      /\ Last(n.swap_events).decode_position = r.current_decode_position
                      /\ id \notin SeqSet(state'.running)
            /\ (r.status = SWAPPED \/ n.status = SWAPPED)
                   => /\ n.current_decode_position = r.current_decode_position
                      /\ memory_requirement(n) = memory_requirement(r)
            /\ (r.status = SWAPPED /\ n.status # SWAPPED)
                   => /\ n.status = RUNNING
                      /\ id \in SeqSet(state'.running)
                      /\ Len(n.swap_events) = Len(r.swap_events)
                      /\ Last(n.swap_events).swap_in_time = time
            /\ (r.status = SWAPPED /\ n.status = SWAPPED)
                   => \/ n.swap_events = r.swap_events
                      \/ /\ Len(n.swap_events) = Len(r.swap_events) + 1
                         /\ n.swap_events[Len(r.swap_events)].swap_in_time = time]_vars

\* C12 witness: a request swapped out after it had decoded, admitted again
\* from SWAPPED with its progress, and RUNNING.
C12_Witness ==
    \E id \in DOMAIN trace :
        LET r == state.req[id] IN
        /\ r.status = RUNNING
        /\ r.swap_events # <<>>
        /\ Last(r.swap_events).decode_position > 0
        /\ Last(r.swap_events).swap_in_time > Last(r.swap_events).swap_out_time
        /\ r.current_decode_position >= Last(r.swap_events).decode_position

\* the step preempts: a full cycle of the aggressive strategy, or the
\* memory-pressure-only call of the overlay
AtPreemptingCall ==
    \/ AtAggressiveCycle
    \/ pc = "post" /\ simulator = "overlay" /\ ~admission_allowed(state)

\* RUNNING when Phase 2 starts: after the admissions of Phase 1 in a full cycle
RunningAtPhase2 ==
    IF AtAggressiveCycle
    THEN _schedule_waiting_no_preemption(state, time).running
    ELSE state.running

IndexIn(q, id) == CHOOSE i \in 1..Len(q) : q[i] = id

\* C13: victims are taken in LIFO order of the last entry of
\* enter_running_times, and of the RUNNING requests with the same last-entry
\* time the one with the later index is evicted first: a request that stays
\* RUNNING has not entered later than a victim, and if it entered at the same
\* time it comes before the victim in RUNNING.
C13_LifoLaterIndexFirst ==
    [][AtPreemptingCall
       => \A v \in SeqSet(RunningAtPhase2) \ SeqSet(state'.running) :
          \A u \in SeqSet(RunningAtPhase2) \cap SeqSet(state'.running) :
              /\ last_enter_time(state'.req[u]) <= last_enter_time(state'.req[v])
              /\ last_enter_time(state'.req[u]) = last_enter_time(state'.req[v])
                     => IndexIn(RunningAtPhase2, u) < IndexIn(RunningAtPhase2, v)]_vars

\* the requests admitted to RUNNING by the step from the current state
AdmittedNow ==
    {id \in DOMAIN state.req :
        Len(state'.req[id].enter_running_times) > Len(state.req[id].enter_running_times)}

RECURSIVE MemoryAdmittedBefore(_, _, _)
\* the memory of the requests of adm that come before x in the queue q:
\* admissions are made in queue order, SWAPPED first
MemoryAdmittedBefore(q, adm, x) ==
    IF q = <<>> \/ Head(q) = x THEN 0
    ELSE (IF Head(q) \in adm THEN memory_requirement(state.req[Head(q)]) ELSE 0)
         + MemoryAdmittedBefore(Tail(q), adm, x)

\* C14: every admission of the policy (either strategy, from WAITING or from
\* SWAPPED) is made with memory_requirement + 1 <= available_memory at the
\* moment of admit_to_batch, the fatal check of admit_to_batch never fires,
\* and the conservative strategy never admits a request with
\* memory_requirement > M_total.
C14_AdmissionsLeaveGrowthRoom ==
    [][/\ ~state'.fatal
       /\ pc' # "crashed"
       /\ \A x \in AdmittedNow :
             /\ memory_requirement(state.req[x]) + 1
                    <= available_memory(state)
                       - MemoryAdmittedBefore(state.swapped \o state.waiting, AdmittedNow, x)
             /\ preemption_strategy = "conservative"
                    => memory_requirement(state.req[x]) <= state.M_total]_vars

\* C14 witness: the conservative strategy has admitted two requests in one
\* call, the second into the room that the first one left.
C14_Witness ==
    /\ preemption_strategy = "conservative"
    /\ Len(state.running) >= 2
    /\ \A i \in 1..Len(state.running) :
           /\ state.req[state.running[i]].current_decode_position = 0
           /\ last_enter_time(state.req[state.running[i]]) = time

\* Runs whose trace holds a request larger than the whole memory.
InitOversized ==
    ConfigInitOf({"base", "state", "overlay"}, {"swap", "sacrifice"},
                 {"aggressive", "conservative"}, {2}, {3, 6}, MaxReqs,
                 {<<3, 1>>, <<1, 1>>, <<1, 3>>})

SpecOversized == InitOversized /\ [][Next]_vars

\* C15: in aggressive mode a request whose memory_requirement exceeds M_total
\* is admitted to RUNNING (as the sole occupant) rather than left in WAITING:
\* when the run ends, every such request in the WAITING queue has entered
\* RUNNING before.
C15_OversizedAdmittedAlone ==
    (preemption_strategy = "aggressive" /\ pc = "done")
        => \A id \in DOMAIN trace :
              (memory_requirement(state.req[id]) > state.M_total
                  /\ id \in SeqSet(state.waiting))
                 => state.req[id].enter_running_times # <<>>

\* C16: with M_total = 0 no request is ever admitted to RUNNING, and run()
\* returns only after every request of the trace has arrived (the pending
\* trace is empty when the run has ended).
C16_ZeroMemoryDrainsArrivals ==
    state.M_total = 0 =>
        /\ state.running = <<>>
        /\ \A id \in DOMAIN trace : state.req[id].enter_running_times = <<>>
        /\ pc = "done" => pending_requests = <<>>

\* the part of C16 that the code keeps: nothing is admitted with M_total = 0
ZeroMemoryAdmitsNothing ==
    state.M_total = 0 =>
        /\ state.running = <<>>
        /\ state.total_admitted = 0
        /\ \A id \in DOMAIN trace : state.req[id].enter_running_times = <<>>

\* C17: truncation is applied only in a pass over the loop head with
\* batch_id = truncation_batch_id, before the batch of that id is executed,
\* and at most once: after it has been applied no later pass applies it
\* again, also when the loop is re-entered with the same batch_id after an
\* idle fast-forward.
C17_TruncationAtMostOnce ==
    [][/\ (pc = "truncate" \/ pc' = "truncate" \/ truncation_applied' # truncation_applied)
          => /\ batch_id = truncation_batch_id
             /\ batch_id' = batch_id
             /\ ~truncation_applied
             /\ \A i \in 1..Len(snapshots) : snapshots[i].batch_id < truncation_batch_id
       /\ truncation_applied
          => /\ truncation_applied'
             /\ truncation_time' = truncation_time
             /\ all_requests' = all_requests
             /\ req_id' = req_id
             /\ Len(state'.req) = Len(state.req)]_vars

\* C17 witness: after the truncation and an idle fast-forward the loop is
\* entered again with batch_id = truncation_batch_id.
C17_Witness ==
    /\ truncation_applied
    /\ pc = "loop"
    /\ batch_id = truncation_batch_id
    /\ time > truncation_time
    /\ pending_requests # <<>>

\* the requests of the input trace that the truncation dropped from the
\* pending trace
Discarded ==
    {h \in DOMAIN trace : truncation_applied /\ h \notin SeqSet(all_requests)}

\* the requests generated at the truncation
Replacements == {h \in DOMAIN state.req : h > Len(trace)}

InSystem(h) ==
    \/ h \in SeqSet(state.waiting) \/ h \in SeqSet(state.running)
    \/ h \in SeqSet(state.swapped) \/ h \in SeqSet(state.completed_requests)

\* C18, the step: applying the truncation leaves WAITING, RUNNING, SWAPPED,
\* COMPLETED, the fields of every existing request, the counters, the time and
\* batch_id as they are; only the pending trace (and the bookkeeping of the
\* truncation) changes.
TruncationFrame ==
    pc = "truncate"
       => /\ [state' EXCEPT !.req = state.req] = state
          /\ \A h \in DOMAIN state.req : state'.req[h] = state.req[h]
          /\ time' = time
          /\ batch_id' = batch_id
          /\ snapshots' = snapshots
          /\ admission' = admission
          /\ SeqSet(pending_requests') = DOMAIN state'.req \ DOMAIN state.req

\* C18: the truncation changes only the pending trace (TruncationFrame), no
\* request discarded from the pending trace is in WAITING or in any other
\* queue afterwards, nor pending again, and every replacement request has
\* arrival_time >= truncation_time.
C18_TruncationOnlyReplacesPending ==
    [][/\ TruncationFrame
       /\ \A h \in Discarded :
             /\ ~InSystem(h)
             /\ h \notin SeqSet(pending_requests)
             /\ state.req[h] = trace[h]
       /\ \A h \in Replacements : state.req[h].arrival_time >= truncation_time]_vars

\* C18 witness: the truncation has just been applied at a time after 0 with
\* a request RUNNING; it discarded a request and generated a replacement.
C18_Witness ==
    /\ pc = "idle"
    /\ time > 0
    /\ state.running # <<>>
    /\ Discarded # {}
    /\ Replacements # {}

\* C19: with truncation_batch_id = 0 the whole input trace is discarded before
\* any batch is executed: no request of the input trace is ever in WAITING or
\* RUNNING (or in any other queue), only replacement requests are.
C19_TruncationAtZeroDropsWholeTrace ==
    truncation_batch_id = 0
       => \A h \in DOMAIN trace :
             /\ ~InSystem(h)
             /\ state.req[h].enter_running_times = <<>>

\* the part of C19 that the code keeps: the requests of the input trace that
\* arrive after the initial time are all discarded
TruncationAtZeroDropsLaterArrivals ==
    (truncation_batch_id = 0 /\ truncation_applied)
       => \A h \in DOMAIN trace : trace[h].arrival_time > 0 => h \in Discarded

\* the requests in the system after the truncation: the arrived requests of
\* the input trace and the replacement requests
AfterTruncationRequests ==
    {h \in DOMAIN state.req : h \in Replacements \/ h \notin Discarded}

C21_CompletedInTheSweep ==
    [][/\ \A id \in DOMAIN trace :
             state'.req[id].status = COMPLETED
                => /\ is_completed(state'.req[id])
                   /\ state'.req[id].completion_time >= state'.req[id].arrival_time
       /\ pc = "exec"
             => \A id \in SeqSet(state.running) :
                   IF is_completed(state'.req[id])
                   THEN /\ state'.req[id].status = COMPLETED
                        /\ state'.req[id].completion_time = time'
                        /\ id \in SeqSet(state'.completed_requests)
                        /\ id \notin SeqSet(state'.running)
                   ELSE id \in SeqSet(state'.running)
       /\ pc' = "post"
             => \A id \in SeqSet(state'.running) : ~is_completed(state'.req[id])]_vars

\* C21 witness: one sweep has completed two requests, and the post-step
\* scheduling call is still to come.
C21_Witness ==
    /\ pc = "post"
    /\ \E a, b \in SeqSet(state.completed_requests) :
          /\ a # b
          /\ state.req[a].completion_time = time
          /\ state.req[b].completion_time = time

\* the requests of the executed subset of the step from the current state
ExecutedNow ==
    IF pc = "exec" THEN SeqSet(select_execution_batch(state).batch) ELSE {}

\* C22: current_decode_position changes only by +1, for the requests of the
\* executed subset of a step, and to 0, for a request that is sacrificed; every
\* other action leaves it as it is: for WAITING, SWAPPED and COMPLETED requests
\* and for RUNNING requests left out by the B-cut.
C22_PositionChangesOnlyInBatch ==
    [][\A id \in DOMAIN trace :
          LET r == state.req[id]
              q == state'.req[id]
          IN IF id \in ExecutedNow
                THEN q.current_decode_position = r.current_decode_position + 1
             ELSE IF Len(q.sacrifice_events) > Len(r.sacrifice_events)
                THEN /\ q.current_decode_position = 0
                     /\ Last(q.sacrifice_events).decode_position = r.current_decode_position
             ELSE q.current_decode_position = r.current_decode_position]_vars

\* C22 witness: the last batch left a RUNNING request out (B-cut), and that
\* request is still at the position it had.
C22_Witness ==
    /\ pc = "post"
    /\ snapshots # <<>>
    /\ Last(snapshots).actual_batch_count < Len(Last(snapshots).running_ids)
    /\ \E id \in SeqSet(state.running) : state.req[id].current_decode_position = 0

\* C23: the counters of SystemState account for every request that entered
\* RUNNING: swap-outs are at least the swap-ins and the difference is the
\* size of SWAPPED; admissions (swap-ins included) are at least the swap-ins
\* and equal completions + |RUNNING| + swap-outs + sacrifices.
C23_CountersBalance ==
    /\ state.total_swapped_out >= state.total_swapped_in
    /\ Len(state.swapped) = state.total_swapped_out - state.total_swapped_in
    /\ state.total_admitted >= state.total_swapped_in
    /\ state.total_admitted = state.total_completed + Len(state.running)
                                + state.total_swapped_out + state.total_sacrifices

\* C23 witness: a request was swapped out and admitted again, and a request
\* has completed.
C23_Witness ==
    /\ state.total_swapped_in >= 1
    /\ state.total_completed >= 1
    /\ state.running # <<>>

\* C24: every SacrificeEvent has memory_freed = prefill_length + the decode
\* position recorded in the event, which is the position the victim had when
\* it was sacrificed (C22); it is never 0 and, but for a victim at position 0,
\* not the memory after the reset.
C24_MemoryFreedIsUsageAtSacrifice ==
    \A id \in DOMAIN trace :
        \A i \in 1..Len(state.req[id].sacrifice_events) :
            LET e == state.req[id].sacrifice_events[i] IN
            /\ e.memory_freed = state.req[id].prefill_length + e.decode_position
            /\ e.memory_freed > 0

\* C24 witness: a request was sacrificed after it had decoded two tokens.
C24_Witness ==
    \E id \in DOMAIN trace :
        \E i \in 1..Len(state.req[id].sacrifice_events) :
            state.req[id].sacrifice_events[i].decode_position >= 2

\* a request has been appended to WAITING: it is there, or it has left it
\* for RUNNING
WasQueued(id) ==
    id \in SeqSet(state.waiting) \/ state.req[id].enter_running_times # <<>>

\* the part of C25 that the code keeps: a pending request is in no queue and
\* has not run, a request is taken from the pending trace only at or after
\* its arrival_time and is then appended to WAITING, the pass over the loop
\* head leaves no due arrival pending, and the pending trace is in
\* arrival_time order with ties in trace order
ArrivalsPumpedInOrder ==
    /\ \A id \in SeqSet(pending_requests) : ~InSystem(id) /\ ~WasQueued(id)
    /\ \A id \in DOMAIN trace :
          (id \notin SeqSet(pending_requests) /\ WasQueued(id))
             => trace[id].arrival_time <= time
    /\ pc \in {"step", "exec"}
          => \A id \in SeqSet(pending_requests) : trace[id].arrival_time > time
    /\ \A i, j \in 1..Len(pending_requests) :
          i < j => /\ pending_requests[i] < pending_requests[j]
                   /\ trace[pending_requests[i]].arrival_time
                          <= trace[pending_requests[j]].arrival_time

\* C25: every request of the trace is appended to WAITING exactly once, at
\* the first pass over the loop head with time >= arrival_time and not
\* earlier, in arrival order with ties in trace order; none is skipped: a
\* request that is no longer pending has been appended to WAITING, also when
\* its arrival_time is the initial time.
C25_EveryArrivalQueuedOnce ==
    /\ ArrivalsPumpedInOrder
    /\ \A id \in DOMAIN trace :
          /\ Occurrences(state.waiting, id) <= 1
          /\ id \notin SeqSet(pending_requests) => WasQueued(id)

\* C25 fails in the state-saving simulator only
EveryArrivalQueuedOnceButForState ==
    simulator # "state" => C25_EveryArrivalQueuedOnce

\* C26: one snapshot per executed batch: the snapshots carry the batch ids
\* 0, 1, 2, ... in order, there are batch_id of them, a snapshot is added only
\* by the step that executes a batch (and exactly one), and a step that ends
\* without executing a batch adds none.
C26_OneSnapshotPerBatch ==
    [][/\ Len(snapshots') = batch_id'
       /\ \A i \in 1..Len(snapshots') : snapshots'[i].batch_id = i - 1
       /\ IF pc = "exec"
          THEN /\ Len(snapshots') = Len(snapshots) + 1
               /\ SubSeq(snapshots', 1, Len(snapshots)) = snapshots
               /\ Last(snapshots').time = time
               /\ batch_id' = batch_id + 1
          ELSE snapshots' = snapshots /\ batch_id' = batch_id]_vars

\* C26 witness: a run has ended in a step that executed no batch (the
\* requests left in WAITING do not fit), after earlier steps executed batches.
C26_Witness ==
    /\ pc = "done"
    /\ state.waiting # <<>>
    /\ Len(snapshots) >= 1

RECURSIVE SacrificesBetween(_, _, _)
\* the SacrificeEvents of the requests 1..n with lo < time <= hi
SacrificesBetween(n, lo, hi) ==
    IF n = 0 THEN 0
    ELSE Cardinality({i \in 1..Len(state.req[n].sacrifice_events) :
                         /\ lo < state.req[n].sacrifice_events[i].time
                         /\ state.req[n].sacrifice_events[i].time <= hi})
         + SacrificesBetween(n - 1, lo, hi)

\* C27: the batch_sacrifice_count of each snapshot is the number of
\* sacrifices performed since the previous snapshot (since the start, for the
\* first one), in the base, state-saving and admission-control simulators.
C27_SnapshotCountsSacrificesSincePrevious ==
    \A i \in 1..Len(snapshots) :
        snapshots[i].batch_sacrifice_count
            = SacrificesBetween(Len(trace),
                                IF i = 1 THEN -1 ELSE snapshots[i - 1].time,
                                snapshots[i].time)

\* C27 holds in the state-saving simulator, which zeroes batch_sacrifices
\* right after the snapshot
StateSimulatorCountsSacrificesSincePrevious ==
    simulator = "state" => C27_SnapshotCountsSacrificesSincePrevious

\* C27 for the admission-control simulator alone
OverlayCountsSacrificesSincePrevious ==
    simulator = "overlay" => C27_SnapshotCountsSacrificesSincePrevious

\* the snapshot of the batch executed by the step from the current state
\* tells how long the batch lasts
SnapshotTellsDuration ==
    pc = "exec"
       => /\ Last(snapshots').batch_duration = d_0 + d_1 * state'.actual_batch_tokens
          /\ Last(snapshots').batch_duration = time' - time
          /\ Last(snapshots').next_time = time'

\* C28: the batch_duration of each snapshot is d_0 + d_1 * actual_batch_tokens
\* and is the amount by which the time advances for that batch, so next_time
\* is the time at which the batch ends.
C28_SnapshotDurationIsTimeAdvance ==
    [][SnapshotTellsDuration]_vars

\* C28 holds in the admission-control simulator, which computes the duration
\* once and uses it for the snapshot and for the time
OverlaySnapshotDurationIsTimeAdvance ==
    [][simulator = "overlay" => SnapshotTellsDuration]_vars

InitS1 ==
    /\ ConfigInitFor({"base"}, {"swap"}, {"conservative"}, {10000}, {10000}, 1,
                     {<<200, 100>>}, {0}, {None}, {NoGeneration}, {<<300, 32>>})
    /\ Len(trace) = 1

SpecS1 == InitS1 /\ [][Next]_vars

\* the lone request of scenario S1 is never swapped out and never sacrificed,
\* and it completes after decode_length batches (holds)
S1CompletesUnpreempted ==
    /\ state.total_swapped_out = 0
    /\ state.total_sacrifices = 0
    /\ state.req[1].swap_events = <<>>
    /\ state.req[1].sacrifice_events = <<>>
    /\ pc = "done" => /\ state.req[1].status = COMPLETED
                      /\ batch_id = state.req[1].decode_length

\* the k-th batch of scenario S1 (k from 0) lasts d_0 + d_1 * (200 + k + 1):
\* the tokens of the batch grow with the decode position (holds)
S1BatchDurationGrows ==
    [][batch_id' = batch_id + 1
          => time' - time = d_0 + d_1 * (200 + batch_id + 1)]_vars

\* C30: in scenario S1 the request completes with 0 swaps and 0 sacrifices at
\* time 100 * (d_0 + d_1 * (200 + 1)), that is 6.732 (or the 6.77 the scenario
\* rounds it to): every batch of the run lasts d_0 + d_1 * 201.
C30_ScenarioS1 ==
    [][/\ batch_id' = batch_id + 1 => time' - time = d_0 + d_1 * (200 + 1)
       /\ pc' = "done"
             => /\ state'.req[1].status = COMPLETED
                /\ state'.req[1].completion_time \in
                      {100 * (d_0 + d_1 * (200 + 1)), 677000}
                /\ state'.total_swapped_out = 0
                /\ state'.total_sacrifices = 0]_vars

\* scenario S1 ends with the request completed at 8.316
S1CompletesLater ==
    pc = "done" => state.req[1].completion_time = 831600

\* Scenario S2: the system of S1 with the aggressive strategy and sacrifice
\* mode, two requests (prefill_length 8000, decode_length 10) arriving at
\* times 0 and 0.001 (100 in units of 10^-5), on each simulator that takes the
\* trace as it is (admission control off, no truncation point)
InitS2 ==
    /\ ConfigInitFor({"base", "truncation", "overlay"}, {"sacrifice"}, {"aggressive"},
                     {10000}, {10000}, 2, {<<8000, 10>>}, {0, 100}, {None},
                     {NoGeneration}, {<<300, 32>>})
    /\ ~admission_enabled
    /\ Len(trace) = 2
    /\ trace[1].arrival_time = 0
    /\ trace[2].arrival_time = 100

\* run() goes on as long as its loop condition holds
SpecS2 == InitS2 /\ [][Next]_vars /\ WF_vars(Next)

\* C31: in scenario S2 only the first request is admitted; the second, once it
\* has arrived, stays at the head of WAITING until the first completes, is
\* admitted at that time and completes; total_sacrifices stays 0 throughout.
C31_ScenarioS2 ==
    /\ [](/\ state.total_sacrifices = 0
          /\ state.req[1].status # COMPLETED
                => /\ ~(2 \in SeqSet(state.running))
                   /\ state.req[2].enter_running_times = <<>>
                   /\ ~(2 \in SeqSet(pending_requests))
                         => /\ state.waiting # <<>>
                            /\ Head(state.waiting) = 2
                            /\ state.req[2].status = WAITING
          /\ state.req[2].enter_running_times # <<>>
                => state.req[2].enter_running_times = <<state.req[1].completion_time>>)
    /\ <>(/\ pc = "done"
          /\ state.req[1].status = COMPLETED
          /\ state.req[2].status = COMPLETED
          /\ state.req[1].completion_time < state.req[2].completion_time)

\* C31 witness: the first request is RUNNING and has decoded tokens while the
\* second waits at the head of WAITING.
C31_Witness ==
    /\ state.running = <<1>>
    /\ state.req[1].current_decode_position >= 2
    /\ state.waiting = <<2>>
    /\ state.total_sacrifices = 0

\* the requests that the step admits are a prefix of the queue q
AdmittedIsPrefixOf(q) ==
    \A j \in 1..Len(q) : \A i \in 1..(j - 1) :
        q[j] \in AdmittedNow => q[i] \in AdmittedNow

\* C32: Phase 1 of an aggressive cycle walks SWAPPED (swap mode) and then
\* WAITING in order and stops at the first request that does not fit: no
\* request after the first failing one, later in SWAPPED or anywhere in
\* WAITING, is admitted in that cycle.
C32_Phase1StopsAtFirstFailure ==
    [][AtAggressiveCycle
       => AdmittedIsPrefixOf((IF preemption_mode = "swap" THEN state.swapped ELSE <<>>)
                             \o state.waiting)]_vars

\* each of the two loops of Phase 1 stops at its own first failure (holds)
Phase1LoopsStopAtFirstFailure ==
    [][AtAggressiveCycle
       => /\ AdmittedIsPrefixOf(state.swapped)
          /\ AdmittedIsPrefixOf(state.waiting)]_vars

\* the state when Phase 2 starts: after the admissions of Phase 1 in a full
\* cycle
StateAtPhase2 ==
    IF AtAggressiveCycle THEN _schedule_waiting_no_preemption(state, time) ELSE state

\* the requests that Phase 2 of the step preempts, and those it leaves
VictimsNow == SeqSet(StateAtPhase2.running) \ SeqSet(state'.running)

SurvivorsNow == SeqSet(StateAtPhase2.running) \cap SeqSet(state'.running)

\* the combined current_memory_usage, at the start of Phase 2, of a set of
\* RUNNING requests
UsageAtPhase2(ids) ==
    SumUsage(StateAtPhase2.req, SelectSeq(StateAtPhase2.running, LAMBDA x : x \in ids))

\* C33: Phase 2 preempts nothing when gpu_memory_used + |RUNNING| <= M_total;
\* otherwise, with memory_to_free = gpu_memory_used + |RUNNING| - M_total, the
\* victims are the shortest prefix of RUNNING in most-recent-entry-first order
\* whose combined current_memory_usage is >= memory_to_free, or all of RUNNING
\* when even that is not enough: no survivor entered later than a victim, the
\* victims free enough unless nothing is left, and without the last of them
\* they would not free enough.
C33_VictimsAreShortestLifoPrefix ==
    [][(AtPreemptingCall /\ ~StateAtPhase2.fatal)
       => \E s1 \in {StateAtPhase2} :
          \E memory_to_free \in {gpu_memory_used(s1) + Len(s1.running) - s1.M_total} :
          \E victims \in {VictimsNow} :
             IF memory_to_free <= 0 THEN victims = {}
             ELSE /\ \A v \in victims : \A u \in SurvivorsNow :
                        last_enter_time(s1.req[u]) <= last_enter_time(s1.req[v])
                  /\ UsageAtPhase2(victims) >= memory_to_free \/ SurvivorsNow = {}
                  /\ \E v \in victims :
                        /\ \A w \in victims :
                              last_enter_time(s1.req[v]) <= last_enter_time(s1.req[w])
                        /\ UsageAtPhase2(victims \ {v}) < memory_to_free]_vars

\* C33 witness: a scheduling call has just preempted one request and left
\* another one in RUNNING.
C33_Witness ==
    /\ pc = "loop"
    /\ state.running # <<>>
    /\ \E id \in DOMAIN state.req :
          /\ state.req[id].exit_running_times # <<>>
          /\ Last(state.req[id].exit_running_times) = time
          /\ state.req[id].status \in {WAITING, SWAPPED}
          /\ last_enter_time(state.req[id]) < time

\* gpu_memory_used + |RUNNING|: the occupancy after one more token for every
\* RUNNING request
ProjectedOccupancy(s) == gpu_memory_used(s) + Len(s.running)

\* C34: at the end of every aggressive scheduling cycle, and of every
\* memory-pressure-only call of the admission-control simulator, the projected
\* occupancy gpu_memory_used + |RUNNING| is at most M_total; so under the
\* aggressive strategy every decode step starts with the projected occupancy
\* within M_total and ends with gpu_memory_used within M_total.
C34_ProjectedOccupancyWithinTotal ==
    [][/\ AtPreemptingCall => ProjectedOccupancy(state') <= state'.M_total
       /\ (preemption_strategy = "aggressive" /\ pc = "exec")
             => /\ ProjectedOccupancy(state) <= state.M_total
                /\ gpu_memory_used(state') <= state'.M_total]_vars

\* C34 witness: after a preemption a batch is about to execute with the
\* projected occupancy exactly at M_total.
C34_Witness ==
    /\ pc = "exec"
    /\ preemption_strategy = "aggressive"
    /\ state.running # <<>>
    /\ ProjectedOccupancy(state) = state.M_total
    /\ state.total_sacrifices + state.total_swapped_out >= 1

RECURSIVE PrefixTokens(_, _, _)
\* the sum of memory_requirement + 1 over the first k requests of q
PrefixTokens(req, q, k) ==
    IF k = 0 THEN 0
    ELSE memory_requirement(req[q[k]]) + 1 + PrefixTokens(req, q, k - 1)

\* the requests whose decode position the step advances
AdvancedNow ==
    {id \in DOMAIN state.req :
        state'.req[id].current_decode_position = state.req[id].current_decode_position + 1}

\* C35: the executed batch is the longest prefix of RUNNING (in list order)
\* whose sum of memory_requirement + 1 is <= B, or exactly the first request
\* when it alone exceeds B: it is non-empty whenever RUNNING is non-empty, it
\* never holds a request placed after an excluded one, and actual_batch_count
\* and actual_batch_tokens are its size and its sum.
C35_BatchIsLongestPrefixWithinB ==
    [][pc = "exec"
       => \E q \in {state.running} :
          \E k \in {state'.actual_batch_count} :
             /\ k \in 0..Len(q)
             /\ AdvancedNow = {q[i] : i \in 1..k}
             /\ q # <<>> => k >= 1
             /\ state'.actual_batch_tokens = PrefixTokens(state.req, q, k)
             /\ q # <<>> =>
                   IF PrefixTokens(state.req, q, 1) > state.B THEN k = 1
                   ELSE /\ PrefixTokens(state.req, q, k) <= state.B
                        /\ k < Len(q) => PrefixTokens(state.req, q, k + 1) > state.B]_vars

\* C35 witness: the first RUNNING request alone exceeded B and was executed
\* alone, ahead of a second RUNNING request.
C35_Witness ==
    /\ pc = "post"
    /\ snapshots # <<>>
    /\ Last(snapshots).actual_batch_count = 1
    /\ Len(Last(snapshots).running_ids) = 2
    /\ Last(snapshots).total_tokens_in_batch > state.B

\* the step is a scheduling call of the conservative strategy
AtConservativeCall ==
    /\ AtSchedulingCall
    /\ preemption_strategy = "conservative"
    /\ simulator = "overlay" => admission_allowed(state)

RECURSIVE ReservedBefore(_, _, _)
\* the sum of memory_requirement + 1 of the requests of adm that come before x
\* in the queue q
ReservedBefore(q, adm, x) ==
    IF q = <<>> \/ Head(q) = x THEN 0
    ELSE (IF Head(q) \in adm THEN memory_requirement(state.req[Head(q)]) + 1 ELSE 0)
         + ReservedBefore(Tail(q), adm, x)

RECURSIVE MemoryOf(_, _)
\* the sum of memory_requirement of the requests of q that are in adm
MemoryOf(q, adm) ==
    IF q = <<>> THEN 0
    ELSE (IF Head(q) \in adm THEN memory_requirement(state.req[Head(q)]) ELSE 0)
         + MemoryOf(Tail(q), adm)

\* the admissions of a conservative pass over q that starts with avail
\* available memory: a request is admitted iff it fits, with its token of
\* growth, into what the requests selected before it have left
PassAdmitsWhatFits(q, avail) ==
    \A x \in SeqSet(q) :
        x \in AdmittedNow
            <=> memory_requirement(state.req[x]) + 1
                    <= avail - ReservedBefore(q, AdmittedNow, x)

\* C36: in a conservative pass over a queue (SWAPPED in swap mode, then
\* WAITING) a request is admitted iff memory_requirement + 1 <= the
\* available memory at the start of the pass minus the sum of
\* memory_requirement + 1 of the requests selected earlier in the pass; a
\* request that does not fit is skipped and those after it are still
\* considered; the admitted requests enter RUNNING in their queue order.
C36_ConservativePassReserves ==
    [][AtConservativeCall
       => \E sw \in {IF preemption_mode = "swap" THEN state.swapped ELSE <<>>} :
             /\ PassAdmitsWhatFits(sw, available_memory(state))
             /\ PassAdmitsWhatFits(state.waiting,
                                   available_memory(state) - MemoryOf(sw, AdmittedNow))
             /\ state'.running =
                   state.running
                   \o SelectSeq(sw, LAMBDA x : x \in AdmittedNow)
                   \o SelectSeq(state.waiting, LAMBDA x : x \in AdmittedNow)]_vars

\* C36 witness: a conservative call has skipped the first request of WAITING,
\* which has never run, and admitted the one behind it.
C36_Witness ==
    /\ preemption_strategy = "conservative"
    /\ pc = "exec"
    /\ state.waiting # <<>>
    /\ state.req[Head(state.waiting)].enter_running_times = <<>>
    /\ \E id \in SeqSet(state.running) :
          /\ id > Head(state.waiting)
          /\ state.req[id].enter_running_times = <<time>>

\* C37: every scheduling cycle leaves the capacity constants as they are:
\* M_total and B have the same values after the call as before it, in both
\* strategies, although the conservative pass lowers M_total while it reserves
\* memory (and no other step of the run changes them either).
C37_CapacityUnchanged ==
    [][/\ state'.M_total = state.M_total
       /\ state'.B = state.B]_vars

\* C37 witness: a conservative call has just admitted a request from SWAPPED,
\* reserving memory for it in the pass over SWAPPED.
C37_Witness ==
    /\ preemption_strategy = "conservative"
    /\ pc = "exec"
    /\ \E a \in SeqSet(state.running) :
          /\ state.req[a].swap_events # <<>>
          /\ Last(state.req[a].swap_events).swap_in_time = time
          /\ state.req[a].current_decode_position >= 1

\* C38: with B >= M_total and the aggressive strategy the B-cut never excludes
\* anything: every step executes all of RUNNING, so actual_batch_count is
\* |RUNNING| and actual_batch_tokens is gpu_memory_used + |RUNNING|, in the
\* state and in the snapshot of the step.
C38_NoCutWhenBudgetCoversMemory ==
    [][(pc = "exec" /\ preemption_strategy = "aggressive" /\ state.B >= state.M_total)
       => /\ AdvancedNow = SeqSet(state.running)
          /\ state'.actual_batch_count = Len(state.running)
          /\ state'.actual_batch_tokens = gpu_memory_used(state) + Len(state.running)
          /\ \E snap \in {Last(snapshots')} :
                /\ snap.running_ids = state.running
                /\ snap.actual_batch_count = Len(snap.running_ids)
                /\ snap.total_tokens_in_batch
                      = snap.gpu_memory_used + Len(snap.running_ids)]_vars

\* C38 witness: with B = M_total a batch of two requests has just been executed
\* whole, with exactly B tokens.
C38_Witness ==
    /\ pc = "post"
    /\ preemption_strategy = "aggressive"
    /\ state.B = state.M_total
    /\ snapshots # <<>>
    /\ Len(Last(snapshots).running_ids) = 2
    /\ Last(snapshots).actual_batch_count = 2
    /\ Last(snapshots).total_tokens_in_batch = state.B

\* C39: within one aggressive scheduling cycle a request admitted to RUNNING
\* in Phase 1 is not preempted in Phase 2 of the same cycle: every request the
\* cycle admits is RUNNING at its end.
C39_AdmittedNotEvictedInSameCycle ==
    [][AtAggressiveCycle
       => \A x \in AdmittedNow :
             /\ x \in SeqSet(state'.running)
             /\ state'.req[x].status = RUNNING]_vars

\* the RUNNING requests, at the start of Phase 2, that no other one entered
\* RUNNING before
EarliestAtPhase2 ==
    {e \in SeqSet(StateAtPhase2.running) :
        \A u \in SeqSet(StateAtPhase2.running) :
            last_enter_time(StateAtPhase2.req[e]) <= last_enter_time(StateAtPhase2.req[u])}

\* C40: Phase 2 never empties RUNNING needlessly: if RUNNING is non-empty
\* before Phase 2 and the request with the earliest last enter-running time
\* has current_memory_usage + 1 <= M_total, that request is still RUNNING after
\* Phase 2, so a request executes in the next step.  (Of several requests
\* with the same earliest time, one stays.)
C40_EarliestSurvivesPhase2 ==
    [][(/\ AtPreemptingCall
        /\ ~StateAtPhase2.fatal
        /\ StateAtPhase2.running # <<>>
        /\ \A e \in EarliestAtPhase2 :
               current_memory_usage(StateAtPhase2.req[e]) + 1 <= StateAtPhase2.M_total)
       => /\ \E e \in EarliestAtPhase2 :
                /\ e \in SeqSet(state'.running)
                /\ state'.req[e].status = RUNNING
          /\ state'.running # <<>>
          /\ pc' # "done"]_vars

\* C40 holds of the aggressive strategy: every call of Phase 2 follows a
\* call that left gpu_memory_used + |RUNNING| <= M_total, with one decode
\* step in between
AggressiveEarliestSurvivesPhase2 ==
    [][(/\ AtPreemptingCall
        /\ preemption_strategy = "aggressive"
        /\ StateAtPhase2.running # <<>>
        /\ \A e \in EarliestAtPhase2 :
               current_memory_usage(StateAtPhase2.req[e]) + 1 <= StateAtPhase2.M_total)
       => \E e \in EarliestAtPhase2 : e \in SeqSet(state'.running)]_vars

\* the admission-control simulator with M_total = 5 and requests that decode
\* for three and four tokens: under the conservative strategy memory use grows
\* past M_total before a memory-pressure-only call
InitLongDecode ==
    ConfigInitOf({"overlay"}, {"swap", "sacrifice"}, {"aggressive", "conservative"},
                 {5}, {6}, MaxReqs, {<<1, 3>>, <<1, 4>>})

SpecLongDecode == InitLongDecode /\ [][Next]_vars

====
